---- MODULE Spec2Model ----
(***************************************************************************)
(* cyclingdb: the rider search engine (cyclingdb/search/engine.py), the    *)
(* part of the loader that shapes the dataset (cyclingdb/data/loader.py)   *)
(* and the way app/main.py drives them.                                    *)
(*                                                                         *)
(* Text is a sequence of one-character strings, so that lower(), strip(),  *)
(* substring containment, str() and lexicographic order are computed.      *)
(* A cell of the table is a record [k, n, s]:                              *)
(*   k = "int"    an integer n                                             *)
(*   k = "float"  a float, n is its value in tenths (65.0 is n = 650)      *)
(*   k = "str"    the text s                                               *)
(*   k = "nan"    the missing value NaN                                    *)
(*   k = "none"   the missing value None                                   *)
(* A search parameter is a cell too; k = "none" is the unset parameter.    *)
(***************************************************************************)
EXTENDS Integers, Sequences, FiniteSets, TLC

VARIABLES df, df0, filtered, shown

vars == <<df, df0, filtered, shown>>

(* ------------------------------ cells -------------------------------- *)

I(n) == [k |-> "int", n |-> n, s |-> <<>>]
F(t) == [k |-> "float", n |-> t, s |-> <<>>]
S(t) == [k |-> "str", n |-> 0, s |-> t]
NaN == [k |-> "nan", n |-> 0, s |-> <<>>]
None == [k |-> "none", n |-> 0, s |-> <<>>]
\* A Python list of texts, as st.multiselect returns.
L(items) == [k |-> "list", n |-> 0, s |-> items]

\* pandas isna(): NaN and None are the missing values
IsNa(c) == c.k \in {"nan", "none"}

(* ------------------------------- text -------------------------------- *)

\* The spelling of the column names and keywords the code names.
Chars(name) ==
  CASE name = "Name" -> <<"N", "a", "m", "e">>
    [] name = "Nationality" -> <<"N", "a", "t", "i", "o", "n", "a", "l", "i", "t", "y">>
    [] name = "Team" -> <<"T", "e", "a", "m">>
    [] name = "Age" -> <<"A", "g", "e">>
    [] name = "Overall" -> <<"O", "v", "e", "r", "a", "l", "l">>
    [] name = "Eval" -> <<"E", "v", "a", "l">>
    [] name = "Mountain" -> <<"M", "o", "u", "n", "t", "a", "i", "n">>
    [] name = "Sprint" -> <<"S", "p", "r", "i", "n", "t">>
    [] name = "MO" -> <<"M", "O">>
    [] name = "SP" -> <<"S", "P">>
    [] name = "mountain" -> <<"m", "o", "u", "n", "t", "a", "i", "n">>
    [] name = "sprint" -> <<"s", "p", "r", "i", "n", "t">>
    [] name = "time trial" -> <<"t", "i", "m", "e", " ", "t", "r", "i", "a", "l">>
    [] name = "overall" -> <<"o", "v", "e", "r", "a", "l", "l">>
    [] name = "classics" -> <<"c", "l", "a", "s", "s", "i", "c", "s">>
    [] name = "climber" -> <<"c", "l", "i", "m", "b", "e", "r">>
    [] name = "hill" -> <<"h", "i", "l", "l">>
    [] name = "flat" -> <<"f", "l", "a", "t">>
    [] name = "tt" -> <<"t", "t">>
    [] name = "chrono" -> <<"c", "h", "r", "o", "n", "o">>
    [] name = "cobbles" -> <<"c", "o", "b", "b", "l", "e", "s">>
    [] name = "general classification" ->
         <<"g", "e", "n", "e", "r", "a", "l", " ",
           "c", "l", "a", "s", "s", "i", "f", "i", "c", "a", "t", "i", "o", "n">>
    [] name = "gc" -> <<"g", "c">>

\* str.lower() on one character
LowerChar(c) ==
  CASE c = "A" -> "a" [] c = "B" -> "b" [] c = "C" -> "c" [] c = "D" -> "d"
    [] c = "E" -> "e" [] c = "F" -> "f" [] c = "G" -> "g" [] c = "H" -> "h"
    [] c = "I" -> "i" [] c = "J" -> "j" [] c = "K" -> "k" [] c = "L" -> "l"
    [] c = "M" -> "m" [] c = "N" -> "n" [] c = "O" -> "o" [] c = "P" -> "p"
    [] c = "Q" -> "q" [] c = "R" -> "r" [] c = "S" -> "s" [] c = "T" -> "t"
    [] c = "U" -> "u" [] c = "V" -> "v" [] c = "W" -> "w" [] c = "X" -> "x"
    [] c = "Y" -> "y" [] c = "Z" -> "z" [] OTHER -> c

\* str.lower()
Lower(t) == [i \in 1..Len(t) |-> LowerChar(t[i])]

\* Python's `sub in t` on text
Contains(sub, t) ==
  \E i \in 0..(Len(t) - Len(sub)) : SubSeq(t, i + 1, i + Len(sub)) = sub

RECURSIVE LStrip(_)
LStrip(t) == IF t # <<>> /\ Head(t) = " " THEN LStrip(Tail(t)) ELSE t

RECURSIVE RStrip(_)
RStrip(t) ==
  IF t # <<>> /\ t[Len(t)] = " " THEN RStrip(SubSeq(t, 1, Len(t) - 1)) ELSE t

\* str.strip()
Strip(t) == RStrip(LStrip(t))

\* The code point order of the characters the datasets use.
Ord(c) ==
  CASE c = " " -> 32 [] c = "." -> 46
    [] c = "0" -> 48 [] c = "1" -> 49 [] c = "2" -> 50 [] c = "3" -> 51
    [] c = "4" -> 52 [] c = "5" -> 53 [] c = "6" -> 54 [] c = "7" -> 55
    [] c = "8" -> 56 [] c = "9" -> 57
    [] c = "A" -> 65 [] c = "B" -> 66 [] c = "F" -> 70 [] c = "N" -> 78
    [] c = "R" -> 82 [] c = "T" -> 84 [] c = "Z" -> 90
    [] c = "a" -> 97 [] c = "l" -> 108 [] c = "n" -> 110 [] c = "o" -> 111
    [] c = "x" -> 120

\* Python's a < b on str: lexicographic by code point
RECURSIVE StrLess(_, _)
StrLess(a, b) ==
  IF b = <<>> THEN FALSE
  ELSE IF a = <<>> THEN TRUE
  ELSE IF Ord(Head(a)) # Ord(Head(b)) THEN Ord(Head(a)) < Ord(Head(b))
  ELSE StrLess(Tail(a), Tail(b))

DigitChar(d) == <<"0", "1", "2", "3", "4", "5", "6", "7", "8", "9">>[d + 1]

\* str(n) of a non-negative int
RECURSIVE Digits(_)
Digits(n) == IF n < 10 THEN <<DigitChar(n)>> ELSE Digits(n \div 10) \o <<DigitChar(n % 10)>>

IsDigit(c) == c \in {"0", "1", "2", "3", "4", "5", "6", "7", "8", "9"}

DigitValue(c) == Ord(c) - 48

RECURSIVE ParseInt(_, _)
ParseInt(t, acc) ==
  IF t = <<>> THEN acc ELSE ParseInt(Tail(t), 10 * acc + DigitValue(Head(t)))

\* str(v) of a cell value: str(25) = "25", str(65.0) = "65.0", str("x") = "x"
Str(c) ==
  CASE c.k = "int" -> Digits(c.n)
    [] c.k = "float" -> Digits(c.n \div 10) \o <<".">> \o Digits(c.n % 10)
    [] c.k = "str" -> c.s
    [] c.k = "nan" -> <<"n", "a", "n">>
    [] c.k = "none" -> <<"N", "o", "n", "e">>

(* ----------------------------- datasets ------------------------------ *)
(* The datasets are the tables load_riders_data produces from a CSV file:  *)
(* read_csv gives the rows the labels 0, 1, 2, ... (no index_col), reads a *)
(* column without text as numbers and a column with text as text, and an   *)
(* empty field as NaN.                                                     *)

\* The most rows a dataset has.
MaxRows == 2

Al == <<"A", "l">>
Bo == <<"B", "o">>

Range(f) == {f[i] : i \in DOMAIN f}

\* A column holds text (object dtype) when one of its fields is text.
IsObjectColumn(cells) == \E i \in 1..Len(cells) : cells[i].k = "str"

\* read_csv's type inference on one column of fields: a column with text is
\* all text (a number in it is the text of its digits), a numeric column with
\* an empty field is float64, so its ints are floats.
InferColumn(cells) ==
  IF IsObjectColumn(cells)
    THEN [i \in 1..Len(cells) |->
            IF cells[i].k = "int" THEN S(Digits(cells[i].n)) ELSE cells[i]]
  ELSE IF \E i \in 1..Len(cells) : IsNa(cells[i])
    THEN [i \in 1..Len(cells) |-> IF cells[i].k = "int" THEN F(10 * cells[i].n) ELSE cells[i]]
  ELSE cells

\* pd.read_csv: the column names in order, the index label of every row
\* (a RangeIndex) and the rows, each a function from column name to cell.
ReadCsv(cols, fields) ==
  LET col(j) == InferColumn([i \in 1..Len(fields) |-> fields[i][j]])
      at(c) == CHOOSE j \in 1..Len(cols) : cols[j] = c
  IN [cols |-> cols,
      index |-> [i \in 1..Len(fields) |-> i - 1],
      rows |-> [i \in 1..Len(fields) |-> [c \in Range(cols) |-> col(at(c))[i]]]]

Column(d, c) == [i \in 1..Len(d.rows) |-> d.rows[i][c]]

HasColumn(d, c) == c \in Range(d.cols)

\* The value of a numeric cell in tenths.
Tenths(c) == IF c.k = "int" THEN 10 * c.n ELSE c.n

\* df.dropna(axis=1, how="all"): the columns with a value that is not missing.
DropEmptyColumns(d) ==
  LET kept == SelectSeq(d.cols, LAMBDA c : \E i \in 1..Len(d.rows) : ~IsNa(d.rows[i][c]))
  IN [cols |-> kept,
      index |-> d.index,
      rows |-> [i \in 1..Len(d.rows) |-> [c \in Range(kept) |-> d.rows[i][c]]]]

\* The short codes of the stat columns the loader averages.
LoaderStatColumns ==
  <<"FL", "MO", "HL", "BA", "DH", "CS", "TT", "PR", "SP", "AC", "ST", "RS", "RC">>

RECURSIVE SumSeq(_)
SumSeq(s) == IF s = <<>> THEN 0 ELSE Head(s) + SumSeq(Tail(s))

\* float(text) and to_numeric succeed on a text of digits; the other texts of
\* the datasets are not numbers.
Parses(t) == t # <<>> /\ \A i \in 1..Len(t) : IsDigit(t[i])

\* pd.to_numeric(column, errors="coerce"): what is no number becomes NaN.
ToNumeric(cells) ==
  InferColumn([i \in 1..Len(cells) |->
                 IF cells[i].k = "str"
                   THEN IF Parses(cells[i].s) THEN I(ParseInt(cells[i].s, 0)) ELSE NaN
                 ELSE cells[i]])

\* Eval of one row: the mean of its stat values, NaN skipped, rounded to one
\* decimal, in tenths; NaN when every stat of the row is missing. (The means
\* of one or two whole numbers have one decimal: the rounding leaves them.)
EvalOf(stats) ==
  LET present == SelectSeq(stats, LAMBDA c : ~IsNa(c))
      tenths == [j \in 1..Len(present) |-> Tenths(present[j])]
  IN IF present = <<>> THEN NaN
     ELSE F((2 * SumSeq(tenths) + Len(present)) \div (2 * Len(present)))

\* load_riders_data from the table read_csv gives: the empty columns are
\* dropped, the stat columns that exist are made numeric and the Eval column
\* is their mean.
LoadRidersData(raw) ==
  LET d == DropEmptyColumns(raw)
      existing == SelectSeq(LoaderStatColumns, LAMBDA c : HasColumn(d, c))
      numeric == [c \in Range(existing) |-> ToNumeric(Column(d, c))]
  IN IF existing = <<>> THEN d
     ELSE [cols |-> IF HasColumn(d, "Eval") THEN d.cols ELSE Append(d.cols, "Eval"),
           index |-> d.index,
           rows |-> [i \in 1..Len(d.rows) |->
                       [c \in Range(d.cols) \cup {"Eval"} |->
                          IF c = "Eval"
                            THEN EvalOf([j \in 1..Len(existing) |-> numeric[existing[j]][i]])
                          ELSE IF c \in Range(existing) THEN numeric[c][i]
                          ELSE d.rows[i][c]]]]

\* df.empty: no rows or no columns; the loader stops the session then.
IsEmpty(d) == d.rows = <<>> \/ d.cols = <<>>

\* The sequences of 1..MaxRows lines drawn from a set of lines.
Tables(lines) == UNION {[1..n -> lines] : n \in 1..MaxRows}

\* The datasets the loader produces from the CSV files of one header.
Loaded(cols, lines) ==
  {d \in {LoadRidersData(ReadCsv(cols, t)) : t \in Tables(lines)} : ~IsEmpty(d)}

\* The riders of the example: name, team, age.
Roster ==
  Loaded(<<"Name", "Team", "Age">>,
         {<<S(Al), S(<<"T", "A">>), I(25)>>, <<S(Bo), S(<<"T", "B">>), I(30)>>,
          <<S(Al), S(<<"T", "B">>), I(30)>>, <<NaN, S(<<"T", "A">>), I(25)>>})

\* A file with only a Team column of text, numbers and empty fields.
Teams ==
  Loaded(<<"Team">>, {<<S(<<"B">>)>>, <<S(<<"A">>)>>, <<I(10)>>, <<I(9)>>, <<NaN>>})

\* A file with nationalities, a raw Overall rating and ages, some missing;
\* no Name and no Team.
Rated ==
  Loaded(<<"Nationality", "Age", "Overall">>,
         {<<S(<<"N", "Z">>), I(25), I(60)>>, <<S(<<"F", "R">>), I(30), I(80)>>,
          <<S(<<"N", "Z">>), NaN, I(80)>>, <<NaN, NaN, I(60)>>})

\* Files whose stat columns carry the long names the matcher looks for.
Stats ==
  Loaded(<<"Mountain", "Sprint">>, {<<m, s>> : m \in {I(80), I(0)}, s \in {I(80), I(0)}})

\* The same with empty and unparsable stat fields.
DirtyStats ==
  Loaded(<<"Mountain", "Sprint">>, {<<m, s>> : m \in {NaN, S(<<"x">>)}, s \in {NaN, I(0)}})

\* Files with the short-code stat columns of the PCM export.
ShortCodes ==
  Loaded(<<"Name", "MO", "SP">>,
         {<<S(Al), I(70), I(60)>>, <<S(Bo), I(60), I(75)>>, <<S(Bo), I(70), I(75)>>})

Datasets == Roster \cup Teams \cup Rated \cup Stats \cup DirtyStats \cup ShortCodes

(* ------------------------------ search ------------------------------- *)

\* The outcome of a call: the table it returns, or the exception it raises.
Ok(view) == [ok |-> TRUE, err |-> "", df |-> view]
Raise(e) == [ok |-> FALSE, err |-> e, df |-> [cols |-> <<>>, index |-> <<>>, rows |-> <<>>]]

\* The positions 1..n in order.
Positions(n) == [i \in 1..n |-> i]

\* The rows at the given positions, last first.
TakeReversed(view, pos) ==
  [cols |-> view.cols,
   index |-> [j \in 1..Len(pos) |-> view.index[pos[Len(pos) + 1 - j]]],
   rows |-> [j \in 1..Len(pos) |-> view.rows[pos[Len(pos) + 1 - j]]]]

\* The rows of a view at the given positions, with their index labels.
Take(view, pos) ==
  [cols |-> view.cols,
   index |-> [j \in 1..Len(pos) |-> view.index[pos[j]]],
   rows |-> [j \in 1..Len(pos) |-> view.rows[pos[j]]]]

\* result_df[mask]: the rows at the positions the mask keeps, in order.
Masked(view, mask) ==
  Take(view, SelectSeq(Positions(Len(view.rows)), LAMBDA i : i \in mask))

\* `q and q.strip()`: the parameter is set and not blank.
IsSet(q) == q.k = "str" /\ q.s # <<>> /\ Strip(q.s) # <<>>

\* Series.str.contains(q, case=False, na=False) on one cell, for a query of
\* letters and digits: a cell that is no text gives NaN, which na=False makes
\* False.
StrContains(cell, q) == cell.k = "str" /\ Contains(Lower(q), Lower(cell.s))

\* `q and q.strip()` on a list: a non-empty list is truthy, and a list has no
\* strip method, so the call raises AttributeError; an empty list is falsy.
StripRaises(q) == q.k = "list" /\ q.s # <<>>

\* A text step that does not look for its column: the lookup raises KeyError.
TextStepUnchecked(d, r, col, q) ==
  IF ~r.ok THEN r
  ELSE IF StripRaises(q) THEN Raise("AttributeError")
  ELSE IF ~IsSet(q) THEN r
  ELSE IF ~HasColumn(r.df, col) THEN Raise("KeyError")
  ELSE IF ~IsObjectColumn(Column(d, col)) THEN Raise("AttributeError")
  ELSE Ok(Masked(r.df, {i \in 1..Len(r.df.rows) : StrContains(r.df.rows[i][col], Strip(q.s))}))

\* One text step of search (name, nationality, team): skipped when the
\* parameter is unset or the column is absent; the .str accessor raises on a
\* column of numeric dtype. d is self.df, whose columns give the dtypes. The
\* parameter is tested first, so a list raises whether or not the column is
\* there.
TextStep(d, r, col, q) ==
  IF ~r.ok THEN r
  ELSE IF StripRaises(q) THEN Raise("AttributeError")
  ELSE IF ~IsSet(q) \/ ~HasColumn(r.df, col) THEN r
  ELSE IF ~IsObjectColumn(Column(d, col)) THEN Raise("AttributeError")
  ELSE Ok(Masked(r.df, {i \in 1..Len(r.df.rows) : StrContains(r.df.rows[i][col], Strip(q.s))}))

\* column >= bound and column <= bound on one cell; NaN compares False.
CellGe(c, bound) == c.k \in {"int", "float"} /\ Tenths(c) >= 10 * bound.n
CellLe(c, bound) == c.k \in {"int", "float"} /\ Tenths(c) <= 10 * bound.n

\* Comparing a column with a number raises when a cell is text or None.
CompareRaises(view, col) ==
  \E i \in 1..Len(view.rows) : view.rows[i][col].k \in {"str", "none"}

\* One bound of a range step, the lower one (>=) or the upper one (<=):
\* skipped when the bound is None.
BoundStep(r, col, bound, lower) ==
  IF ~r.ok \/ bound.k = "none" THEN r
  ELSE IF CompareRaises(r.df, col) THEN Raise("TypeError")
  ELSE Ok(Masked(r.df, {i \in 1..Len(r.df.rows) :
                         IF lower THEN CellGe(r.df.rows[i][col], bound)
                         ELSE CellLe(r.df.rows[i][col], bound)}))

\* A range step of search: only when the column named in the code exists.
RangeStep(r, col, lo, hi) ==
  IF ~r.ok \/ ~HasColumn(r.df, col) THEN r
  ELSE BoundStep(BoundStep(r, col, lo, TRUE), col, hi, FALSE)

(* ------------------------ specialization match ----------------------- *)

\* The keywords that make a column a stat column.
StatKeywords == <<"mountain", "sprint", "time trial", "overall", "classics">>

\* spec_mapping, in the order of the dict.
SpecMapping ==
  <<[key |-> "mountain", terms |-> <<"mountain", "climber", "hill">>],
    [key |-> "sprint", terms |-> <<"sprint", "flat">>],
    [key |-> "time trial", terms |-> <<"time trial", "tt", "chrono">>],
    [key |-> "classics", terms |-> <<"classics", "cobbles">>],
    [key |-> "overall", terms |-> <<"overall", "general classification", "gc">>]>>

\* any(word in col.lower() for word in words)
AnyIn(words, col) ==
  \E j \in 1..Len(words) : Contains(Chars(words[j]), Lower(Chars(col)))

IsStatColumn(col) == AnyIn(StatKeywords, col)

\* stat_columns: the columns whose lowered name contains a keyword.
StatColumns(view) == SelectSeq(view.cols, IsStatColumn)

\* The terms of the first entry of spec_mapping that lists the requested
\* specialization (the loop breaks there); none when no entry lists it.
SpecTerms(spec) ==
  LET hits == SelectSeq(SpecMapping,
                        LAMBDA e : \E j \in 1..Len(e.terms) : Chars(e.terms[j]) = spec)
  IN IF hits = <<>> THEN <<>> ELSE hits[1].terms

\* target_columns: the stat columns whose lowered name contains a term.
TargetColumns(view, spec) ==
  LET terms == SpecTerms(spec)
  IN SelectSeq(StatColumns(view), LAMBDA c : AnyIn(terms, c))

\* A Python float: NaN, or a number in tenths.
FloatNaN == [nan |-> TRUE, v |-> 0]
FloatOf(t) == [nan |-> FALSE, v |-> t]

\* stat_values[col]: float(row[col]), and 0 when float() raises ValueError
\* (unparsable text) or TypeError (None). float(NaN) raises nothing: it is NaN.
ToFloat(c) ==
  CASE c.k \in {"int", "float"} -> FloatOf(Tenths(c))
    [] c.k = "nan" -> FloatNaN
    [] c.k = "none" -> FloatOf(0)
    [] c.k = "str" -> IF Parses(c.s) THEN FloatOf(10 * ParseInt(c.s, 0)) ELSE FloatOf(0)

\* a > b on floats: False when either is NaN.
FloatGt(a, b) == ~a.nan /\ ~b.nan /\ a.v > b.v

\* a == b on floats: False when either is NaN.
FloatEq(a, b) == ~a.nan /\ ~b.nan /\ a.v = b.v

\* Python's max(values): the first value is the candidate, and a later value
\* replaces it only when it compares greater.
RECURSIVE MaxFrom(_, _)
MaxFrom(best, rest) ==
  IF rest = <<>> THEN best
  ELSE MaxFrom(IF FloatGt(Head(rest), best) THEN Head(rest) ELSE best, Tail(rest))

PyMax(values) == MaxFrom(Head(values), Tail(values))

\* The row test with ties excluded: a target column must exceed every other
\* stat column.
RowMatchesStrict(row, statCols, targetCols) ==
  \E j \in 1..Len(targetCols) :
    \A i \in 1..Len(statCols) :
      statCols[i] # targetCols[j] =>
        FloatGt(ToFloat(row[targetCols[j]]), ToFloat(row[statCols[i]]))

\* The row test of the loop: some target column equals max_stat.
RowMatches(row, statCols, targetCols) ==
  LET stat_values == [j \in 1..Len(statCols) |-> ToFloat(row[statCols[j]])]
      max_stat == PyMax(stat_values)
  IN \E j \in 1..Len(targetCols) : FloatEq(ToFloat(row[targetCols[j]]), max_stat)

\* df.loc[labels]: for every label of the list in turn, every row that
\* carries the label, in table order.
RECURSIVE LocPositions(_, _)
LocPositions(view, labels) ==
  IF labels = <<>> THEN <<>>
  ELSE SelectSeq(Positions(Len(view.rows)), LAMBDA i : view.index[i] = Head(labels))
       \o LocPositions(view, Tail(labels))

Loc(view, labels) == Take(view, LocPositions(view, labels))

\* _filter_by_specialization(df, specialization)
FilterBySpecialization(view, spec) ==
  LET stat_columns == StatColumns(view)
      target_columns == TargetColumns(view, spec)
      kept == SelectSeq(Positions(Len(view.rows)),
                        LAMBDA i : RowMatches(view.rows[i], stat_columns, target_columns))
      filtered_indices == [j \in 1..Len(kept) |-> view.index[kept[j]]]
  IN IF stat_columns = <<>> THEN view
     ELSE IF target_columns = <<>> THEN view
     ELSE IF filtered_indices # <<>> THEN Loc(view, filtered_indices)
     ELSE Take(view, <<>>)

\* The specialization step of search.
SpecStep(r, q) ==
  IF ~r.ok \/ ~IsSet(q) THEN r
  ELSE Ok(FilterBySpecialization(r.df, Lower(Strip(q.s))))

\* search(name_query, nationality, team, min_age, max_age, min_overall,
\* max_overall, specialization) on the stored dataset d.
Search(d, p) ==
  LET r0 == Ok(d)
      r1 == TextStep(d, r0, "Name", p.name_query)
      r2 == TextStep(d, r1, "Nationality", p.nationality)
      r3 == TextStep(d, r2, "Team", p.team)
      r4 == RangeStep(r3, "Age", p.min_age, p.max_age)
      r5 == RangeStep(r4, "Overall", p.min_overall, p.max_overall)
  IN SpecStep(r5, p.specialization)

(* --------------------- get_unique_values, get_stats ------------------- *)

\* Series.unique(): the values in order of first appearance.
RECURSIVE Unique(_)
Unique(s) ==
  IF s = <<>> THEN <<>>
  ELSE LET front == Unique(SubSeq(s, 1, Len(s) - 1))
           last == s[Len(s)]
       IN IF last \in Range(front) THEN front ELSE Append(front, last)

\* sorted() of a list of str: x goes before the first element greater than it.
RECURSIVE Insert(_, _)
Insert(x, s) ==
  IF s = <<>> THEN <<x>>
  ELSE IF StrLess(x, Head(s)) THEN <<x>> \o s
  ELSE <<Head(s)>> \o Insert(x, Tail(s))

\* The list as it is, unsorted.
Unsorted(s) == s

RECURSIVE Sorted(_)
Sorted(s) == IF s = <<>> THEN <<>> ELSE Insert(s[Len(s)], Sorted(SubSeq(s, 1, Len(s) - 1)))

\* Series.dropna()
DropNa(cells) == SelectSeq(cells, LAMBDA c : ~IsNa(c))

\* get_unique_values(column)
GetUniqueValuesOf(d, column) ==
  IF ~HasColumn(d, column) THEN <<>>
  ELSE LET unique_values == Unique(DropNa(Column(d, column)))
       IN Sorted([j \in 1..Len(unique_values) |-> Str(unique_values[j])])

\* Series.nunique(): the number of distinct values that are not missing.
NUnique(cells) == Cardinality(Range(DropNa(cells)))

\* A number of the statistics: NaN, or the fraction num/den.
StatNaN == [nan |-> TRUE, num |-> 0, den |-> 1]
StatNum(num, den) == [nan |-> FALSE, num |-> num, den |-> den]

\* Series.mean() of a numeric column: the missing values are skipped, and the
\* mean of no values is NaN. The sum is in tenths.
Mean(cells) ==
  LET present == DropNa(cells)
  IN IF present = <<>> THEN StatNaN
     ELSE StatNum(SumSeq([j \in 1..Len(present) |-> Tenths(present[j])]), 10 * Len(present))

\* get_stats(filtered_df) on the table it analyses.
GetStatsOf(view) ==
  [total_riders |-> Len(view.rows),
   countries |-> IF HasColumn(view, "Nationality") THEN NUnique(Column(view, "Nationality")) ELSE 0,
   teams |-> IF HasColumn(view, "Team") THEN NUnique(Column(view, "Team")) ELSE 0,
   avg_age |-> IF HasColumn(view, "Age") THEN Mean(Column(view, "Age")) ELSE StatNum(0, 1)]

(* ----------------------- validate_csv_structure ---------------------- *)

ExpectedColumns == <<"Name", "Team", "Age">>

\* The loop of validate_csv_structure from the expected columns still to
\* check: the first missing one is warned about and ends the call.
RECURSIVE ValidateFrom(_, _)
ValidateFrom(d, expected) ==
  IF expected = <<>> THEN [warnings |-> 0, valid |-> TRUE]
  ELSE IF ~HasColumn(d, Head(expected)) THEN [warnings |-> 1, valid |-> FALSE]
  ELSE ValidateFrom(d, Tail(expected))

ValidateCsvStructure(d) == ValidateFrom(d, ExpectedColumns)

(* --------------------------- the engine ------------------------------ *)

\* The parameters of a search call, all unset.
NoFilter ==
  [name_query |-> None, nationality |-> None, team |-> None,
   min_age |-> None, max_age |-> None,
   min_overall |-> None, max_overall |-> None, specialization |-> None]

\* The values the calls pass for each parameter.
ParamValues ==
  [name_query |-> {S(<<"a", "l">>), S(<<" ">>)},
   nationality |-> {S(<<"n", "z">>)},
   team |-> {S(<<"a">>)},
   min_age |-> {I(28)},
   max_age |-> {I(28)},
   min_overall |-> {I(70)},
   max_overall |-> {I(70)},
   specialization |-> {S(Chars("mountain")), S(Chars("sprint")),
                       S(<<" ", "C", "l", "i", "m", "b", "e", "r", " ">>),
                       S(Chars("overall"))}]

ParamNames == DOMAIN ParamValues

\* The calls with one parameter set.
OneFilter ==
  UNION {{[NoFilter EXCEPT ![f] = v] : v \in ParamValues[f]} : f \in ParamNames}

\* The calls of the session: no filter, one filter, and two filters on the
\* columns a dataset can have together.
SearchInputs ==
  {NoFilter} \cup OneFilter
  \cup {[NoFilter EXCEPT !.min_age = I(25), !.max_age = I(28)],
        [NoFilter EXCEPT !.min_overall = I(61), !.max_overall = I(70)],
        [NoFilter EXCEPT !.name_query = S(<<"A", "L">>), !.min_age = I(28)],
        [NoFilter EXCEPT !.max_age = I(28), !.specialization = S(Chars("overall"))]}

\* What the Team multiselect can hold when it is not empty: its options are
\* get_unique_values("Team"), and the selection is a list of them (here one
\* option, or all of them in the order of the options).
TeamSelections(d) ==
  LET unique_teams == GetUniqueValuesOf(d, "Team")
  IN {<<unique_teams[i]>> : i \in 1..Len(unique_teams)}
     \cup (IF Len(unique_teams) >= 2 THEN {unique_teams} ELSE {})

\* The calls the page makes with a team selection:
\* team=team_filter if team_filter else None, the other parameters unset.
TeamInputs(d) == {[NoFilter EXCEPT !.team = L(sel)] : sel \in TeamSelections(d)}

\* The columns get_unique_values is asked for.
UniqueColumns == {"Team", "Age", "Nationality"}

\* self.df when search stores the table it filtered.
StoredAfterSearchNarrowed(d, result_df) == result_df

\* self.df after a search call: search works on result_df, a copy, and
\* never assigns self.df.
StoredAfterSearch(d, result_df) == d

\* What the session remembers of its last search: the parameters, the
\* outcome, and, when the call repeated the parameters of the search before
\* it with other calls in between (again), the outcome of that search (prev).
NoSearch ==
  [called |-> FALSE, params |-> NoFilter, res |-> Raise(""),
   again |-> FALSE, prev |-> Raise("")]

NoOutput ==
  [op |-> "", column |-> "", on_view |-> FALSE, values |-> <<>>,
   stats |-> GetStatsOf(Raise("").df),
   checked |-> ValidateFrom(Raise("").df, <<>>)]

\* RiderSearchEngine(df): self.df = df.copy()
Init ==
  /\ df0 \in Datasets
  /\ df = df0
  /\ filtered = NoSearch
  /\ shown = NoOutput

\* filtered_df = search_engine.search(...); what was shown before belongs to
\* the run before.
DoSearch ==
  \E p \in SearchInputs \cup TeamInputs(df) :
    LET res == Search(df, p)
        again == filtered.called /\ filtered.params = p /\ shown.op # ""
    IN /\ filtered' = [called |-> TRUE, params |-> p, res |-> res, again |-> again,
                       prev |-> IF again THEN filtered.res ELSE Raise("")]
       /\ df' = StoredAfterSearch(df, res.df)
       /\ shown' = NoOutput
       /\ UNCHANGED df0

\* search_engine.get_unique_values(column)
GetUniqueValues ==
  \E c \in UniqueColumns :
    /\ shown' = [NoOutput EXCEPT !.op = "get_unique_values", !.column = c,
                                 !.values = GetUniqueValuesOf(df, c)]
    /\ UNCHANGED <<df, df0, filtered>>

\* search_engine.get_stats(): the statistics of the stored dataset
GetStats ==
  /\ shown' = [NoOutput EXCEPT !.op = "get_stats", !.stats = GetStatsOf(df)]
  /\ UNCHANGED <<df, df0, filtered>>

\* search_engine.get_stats(filtered_df): the statistics of the search result
GetStatsFiltered ==
  /\ filtered.called /\ filtered.res.ok
  /\ shown' = [NoOutput EXCEPT !.op = "get_stats", !.on_view = TRUE,
                               !.stats = GetStatsOf(filtered.res.df)]
  /\ UNCHANGED <<df, df0, filtered>>

\* validate_csv_structure(df) on the dataset
Validate ==
  /\ shown' = [NoOutput EXCEPT !.op = "validate_csv_structure",
                               !.checked = ValidateCsvStructure(df)]
  /\ UNCHANGED <<df, df0, filtered>>

Next == DoSearch \/ GetUniqueValues \/ GetStats \/ GetStatsFiltered \/ Validate

Spec == Init /\ [][Next]_vars

(* ============================== claims =============================== *)

\* The last call was a search with only the specialization set, and the
\* dataset has a stat column and a target column for the category asked for.
SpecializationOnly ==
  /\ filtered.called
  /\ IsSet(filtered.params.specialization)
  /\ filtered.params = [NoFilter EXCEPT !.specialization = filtered.params.specialization]
  /\ StatColumns(df) # <<>>
  /\ TargetColumns(df, Lower(Strip(filtered.params.specialization.s))) # <<>>

Category == Lower(Strip(filtered.params.specialization.s))

\* Row i of the dataset is in the search result.
Returned(i) ==
  \E j \in 1..Len(filtered.res.df.rows) :
    /\ filtered.res.df.index[j] = df.index[i]
    /\ filtered.res.df.rows[j] = df.rows[i]

\* Every stat value of the row is a number.
AllNumbers(row) ==
  \A c \in Range(StatColumns(df)) : row[c].k \in {"int", "float"}

\* A target column of the category attains the maximum of the row's stat
\* values, all numbers.
AttainsMax(row) ==
  \E c \in Range(TargetColumns(df, Category)) :
    \A o \in Range(StatColumns(df)) : Tenths(row[c]) >= Tenths(row[o])

\* C1: search(specialization=c), on a dataset with a stat column and a target
\* column for c, returns a row of numeric stats if and only if one of its
\* target columns attains the row's maximum over all stat columns, ties
\* included.
C1_TieRule ==
  SpecializationOnly =>
    /\ filtered.res.ok
    /\ \A i \in 1..Len(df.rows) :
         AllNumbers(df.rows[i]) => (Returned(i) <=> AttainsMax(df.rows[i]))

\* A mountain query returned a row whose Mountain and Sprint tie and left
\* out a row whose Sprint is higher.
C1_Witness ==
  /\ SpecializationOnly
  /\ Category = Chars("mountain")
  /\ HasColumn(df, "Mountain") /\ HasColumn(df, "Sprint")
  /\ \E i, j \in 1..Len(df.rows) :
       /\ df.rows[i]["Mountain"] = I(80) /\ df.rows[i]["Sprint"] = I(80) /\ Returned(i)
       /\ df.rows[j]["Mountain"] = I(0) /\ df.rows[j]["Sprint"] = I(80) /\ ~Returned(j)

\* C2: on a dataset with the short-code columns MO and SP,
\* search(specialization="mountain") returns only the riders whose mountain
\* stat is their best.
C2_ShortCodes ==
  (/\ filtered.called
   /\ filtered.params = [NoFilter EXCEPT !.specialization = S(Chars("mountain"))]
   /\ HasColumn(df, "MO") /\ HasColumn(df, "SP")) =>
    \A j \in 1..Len(filtered.res.df.rows) :
      Tenths(filtered.res.df.rows[j]["MO"]) >= Tenths(filtered.res.df.rows[j]["SP"])

\* view is a subsequence of d: its rows are rows of d, in d's order, each
\* position of d used at most once.
RECURSIVE IsSubsequence(_, _, _, _)
IsSubsequence(view, j, d, i) ==
  IF j > Len(view.rows) THEN TRUE
  ELSE IF i > Len(d.rows) THEN FALSE
  ELSE IF view.rows[j] = d.rows[i] /\ view.index[j] = d.index[i]
    THEN IsSubsequence(view, j + 1, d, i + 1)
  ELSE IsSubsequence(view, j, d, i + 1)

\* C3: whatever the parameters, the table search returns is a subsequence of
\* the dataset, with the dataset's columns.
C3_Subsequence ==
  (filtered.called /\ filtered.res.ok) =>
    /\ filtered.res.df.cols = df0.cols
    /\ IsSubsequence(filtered.res.df, 1, df0, 1)

\* A search kept both rows of a dataset of two different rows.
C3_Witness ==
  /\ filtered.called /\ filtered.res.ok
  /\ filtered.params # NoFilter
  /\ Len(df0.rows) = 2 /\ df0.rows[1] # df0.rows[2]
  /\ Len(filtered.res.df.rows) = 2

\* C4: no call changes the stored dataset, and a search that repeats the
\* parameters of the search before it, with other calls in between, returns
\* the same result.
C4_DatasetUnchanged ==
  /\ df = df0
  /\ filtered.again => filtered.res = filtered.prev

\* A search that narrowed the dataset was repeated after another call.
C4_Witness ==
  /\ filtered.again /\ filtered.res.ok
  /\ Len(filtered.res.df.rows) < Len(df.rows)
  /\ filtered.res.df.rows # <<>>

\* The rating of a row: Overall, or the derived Eval where there is no
\* Overall column.
RatingColumn == IF HasColumn(df, "Overall") THEN "Overall" ELSE "Eval"

\* Row i of the dataset has a rating within the bounds the call gave.
RatingInRange(i) ==
  LET c == df.rows[i][RatingColumn]
      lo == filtered.params.min_overall
      hi == filtered.params.max_overall
  IN /\ lo.k # "none" => (~IsNa(c) /\ Tenths(c) >= 10 * lo.n)
     /\ hi.k # "none" => (~IsNa(c) /\ Tenths(c) <= 10 * hi.n)

\* C5: a search with only min_overall and/or max_overall set, on a dataset
\* with a rating column (Overall or Eval), returns exactly the rows whose
\* rating is within the bounds.
C5_OverallRange ==
  (/\ filtered.called
   /\ filtered.params = [NoFilter EXCEPT !.min_overall = filtered.params.min_overall,
                                         !.max_overall = filtered.params.max_overall]
   /\ HasColumn(df, "Overall") \/ HasColumn(df, "Eval")) =>
    /\ filtered.res.ok
    /\ \A i \in 1..Len(df.rows) : Returned(i) <=> RatingInRange(i)

\* C6: get_stats never reports NaN as the average age, and on a table of no
\* rows it reports no riders and an average age of 0.
C6_EmptyStats ==
  shown.op = "get_stats" =>
    /\ ~shown.stats.avg_age.nan
    /\ shown.stats.total_riders = 0 => shown.stats.avg_age.num = 0

\* The column a parameter filters on.
StepColumn ==
  [name_query |-> "Name", nationality |-> "Nationality", team |-> "Team",
   min_age |-> "Age", max_age |-> "Age", min_overall |-> "Overall", max_overall |-> "Overall"]

\* The parameters with every filter on an absent column unset.
ApplicableOnly(d, p) ==
  [f \in DOMAIN p |->
     IF f \in DOMAIN StepColumn /\ ~HasColumn(d, StepColumn[f]) THEN None ELSE p[f]]

\* The parameters with the blank texts unset.
WithoutBlanks(p) ==
  [f \in DOMAIN p |-> IF p[f].k = "str" /\ Strip(p[f].s) = <<>> THEN None ELSE p[f]]

ColumnStrings(d, column) ==
  {Str(d.rows[i][column]) : i \in {k \in 1..Len(d.rows) : ~IsNa(d.rows[k][column])}}

\* C8: get_unique_values returns the empty list for an absent column, and
\* otherwise the strings of the column's values that are not missing, each
\* once, in ascending lexicographic order.
C8_UniqueValues ==
  shown.op = "get_unique_values" =>
    IF ~HasColumn(df, shown.column) THEN shown.values = <<>>
    ELSE /\ Range(shown.values) = ColumnStrings(df, shown.column)
         /\ \A i \in 1..(Len(shown.values) - 1) : StrLess(shown.values[i], shown.values[i + 1])

\* The values of a column whose rows are not in order came back sorted, with
\* a missing value left out or two distinct values kept.
C8_Witness ==
  /\ shown.op = "get_unique_values"
  /\ HasColumn(df, shown.column)
  /\ Len(df.rows) = 2
  /\ \/ /\ Len(shown.values) = 2
        /\ StrLess(Str(df.rows[2][shown.column]), Str(df.rows[1][shown.column]))
     \/ /\ Len(shown.values) = 1
        /\ IsNa(df.rows[1][shown.column])

\* A stat value with what is no number read as 0.
Coerced(c) ==
  IF c.k \in {"int", "float"} THEN Tenths(c)
  ELSE IF c.k = "str" /\ Parses(c.s) THEN 10 * ParseInt(c.s, 0)
  ELSE 0

\* A target column of the category attains the maximum of the row's stat
\* values, what is no number read as 0.
AttainsCoercedMax(row) ==
  \E c \in Range(TargetColumns(df, Category)) :
    \A o \in Range(StatColumns(df)) : Coerced(row[c]) >= Coerced(row[o])

\* C9: in specialization matching a missing or non-numeric stat value counts
\* as 0: a row is returned if and only if a target column attains the
\* maximum of the row's coerced stat values.
C9_Coercion ==
  SpecializationOnly =>
    /\ filtered.res.ok
    /\ \A i \in 1..Len(df.rows) : Returned(i) <=> AttainsCoercedMax(df.rows[i])

\* The expected columns the dataset lacks.
MissingExpected == {c \in Range(ExpectedColumns) : ~HasColumn(df, c)}

\* C10: validate_csv_structure emits one warning for each expected column
\* that is missing.
C10_WarningPerColumn ==
  shown.op = "validate_csv_structure" =>
    shown.checked.warnings = Cardinality(MissingExpected)

\* The team parameter of the last search was a team selection of the page.
TeamSelected == filtered.called /\ filtered.params.team.k = "list"

\* C11: when the page passes a non-empty list of selected teams as team,
\* search completes without error and returns only riders whose Team is one
\* of the selected teams.
C11_TeamList ==
  TeamSelected =>
    /\ filtered.res.ok
    /\ \A j \in 1..Len(filtered.res.df.rows) :
         Str(filtered.res.df.rows[j]["Team"]) \in Range(filtered.params.team.s)

====
